---------------------------- MODULE Spec2Model ----------------------------
(***************************************************************************)
(* archipack_snap.py: the snap-point helper of archipack (Blender 2.7x).    *)
(*                                                                         *)
(* The module keeps a process-wide store (class SnapStore), a public entry *)
(* function (snap_point), and a modal operator (ARCHIPACK_OT_snap) built   *)
(* on ArchipackSnapBase (init / exit / create_helper / destroy_helper).    *)
(*                                                                         *)
(* The host (bpy) is modelled by the record `bpy`: the object registry     *)
(* (bpy.data.objects), the active scene (objects linked, selection, active *)
(* object), the tool settings, the 3D view's space data, the registered    *)
(* draw and modal handlers and the running translate transforms.  Every    *)
(* function of the source is an operator from a machine state              *)
(*      m = [bpy, SnapStore, self]                                         *)
(* to the machine state after the call, so that a handler is the           *)
(* composition of the calls it makes, in the order of the source.          *)
(***************************************************************************)
EXTENDS Integers, Sequences, FiniteSets, TLC

(***************************************************************************)
(* Bounds of the model.                                                    *)
(***************************************************************************)
\* number of snap_point calls in one behaviour
MaxCalls == 2
\* coordinates of the points given to snap_point and dragged to: 0..MaxCoord
MaxCoord == 1
\* operator instances that may be alive at once
NumOps == 2

(***************************************************************************)
(* Values.                                                                 *)
(***************************************************************************)
None == "None"

\* mathutils.Vector: a 3-tuple of numbers; NoVector is Python's None
NoVector == <<>>
Coords == 0..MaxCoord
Points == {<<x, 2 * x, 0>> : x \in Coords}

Sub(a, b) == <<a[1] - b[1], a[2] - b[2], a[3] - b[3]>>

\* mathutils.Matrix (4x4): its 3x3 part, by name, and its translation column
NoMatrix == [rot |-> None, translation |-> NoVector]
\* the frames callers pass as takemat: rotated, at the origin and away from it
Matrices ==
    {[rot |-> "ROT_Z_90", translation |-> <<0, 0, 0>>],
     [rot |-> "ROT_Z_90", translation |-> <<1, 2, 0>>]}

\* Matrix(): the identity
Matrix == [rot |-> "IDENTITY", translation |-> <<0, 0, 0>>]

\* Matrix().Translation(v): the translation matrix of v
MatrixTranslation(v) == [rot |-> "IDENTITY", translation |-> v]

Vector000 == <<0, 0, 0>>

\* the reserved name of the helper object
HelperName == "Archipack_snap_helper"
\* the objects the user has in the scene
UserObjects == {"Cube", "Lamp"}

Ops == 1..NumOps

\* transform_orientation in ['GLOBAL', 'LOCAL', 'NORMAL', 'GIMBAL', 'VIEW']
Orientations == {"GLOBAL", "LOCAL", "VIEW"}

\* event.type of the event the host hands to modal()
EventTypes == {"LEFTMOUSE", "ESC", "RIGHTMOUSE"}
\* line 258: event.type in ('ESC', 'RIGHTMOUSE')
CancelTypes == {"ESC", "RIGHTMOUSE"}

AreaTypes == {"VIEW_3D", "IMAGE_EDITOR"}

(***************************************************************************)
(* Hooks.  dumb_callback and dumb_draw are the module's defaults; the      *)
(* others stand for caller-supplied hooks: one draw hook written as the    *)
(* docstring of snap_point describes it, and one callback that raises.     *)
(***************************************************************************)

\* def dumb_callback(context, event, state, sp)
dumb_callback == [params |-> <<"context", "event", "state", "sp">>, raises |-> FALSE]

\* def dumb_draw(sp, context, event)
dumb_draw == [params |-> <<"sp", "context", "event">>, raises |-> FALSE]

\* a caller's hooks
raising_callback == [params |-> <<"context", "event", "state", "sp">>, raises |-> TRUE]
user_draw == [params |-> <<"sp", "context">>, raises |-> FALSE]

Hook(name) ==
    CASE name = "dumb_callback" -> dumb_callback
      [] name = "dumb_draw" -> dumb_draw
      [] name = "raising_callback" -> raising_callback
      [] name = "user_draw" -> user_draw

\* Calling a Python function: "TypeError" when the number of positional
\* arguments is not the number of parameters, "raise" when the body raises,
\* "return" otherwise.
Call(name, args) ==
    IF Len(args) # Len(Hook(name).params) THEN "TypeError"
    ELSE IF Hook(name).raises THEN "raise"
    ELSE "return"


(***************************************************************************)
(* State.                                                                  *)
(***************************************************************************)
VARIABLES
    bpy,        \* the host: registry, scene, settings, handlers
    SnapStore,  \* class SnapStore: the process-wide store
    ops,        \* the operator instances: the fields __init__ sets on self
    status,     \* NOT_STARTED | RUNNING | FINISHED | ABORTED, per operator
    calls,      \* number of snap_point calls made so far
    last_call,  \* history: the arguments and the result of the last snap_point
    hist,       \* history, per operator: what its session did
    last_draw,  \* history: the last invocation of a draw handler since the
                \* last call of snap_point or of modal
    sessions    \* history: how many times init and exit have run

vars == <<bpy, SnapStore, ops, status, calls, last_call, hist, last_draw, sessions>>

(***************************************************************************)
(* The context fields a session saves and restores.                        *)
(***************************************************************************)
Context(b) ==
    [selected |-> b.selected,
     active |-> b.active,
     use_snap |-> b.tool_settings.use_snap,
     snap_element |-> b.tool_settings.snap_element,
     snap_target |-> b.tool_settings.snap_target,
     pivot_point |-> b.space_data.pivot_point,
     transform_orientation |-> b.space_data.transform_orientation]

NoContext ==
    [selected |-> {}, active |-> None, use_snap |-> FALSE, snap_element |-> None,
     snap_target |-> None, pivot_point |-> None, transform_orientation |-> None]

(***************************************************************************)
(* The host API the module calls (Blender 2.7x semantics).                 *)
(***************************************************************************)
\* bpy.ops.object.select_all(action="DESELECT")
select_all_DESELECT(b) == [b EXCEPT !.selected = {}]

\* context.scene.objects.link(ob)
scene_objects_link(b, ob) == [b EXCEPT !.scene_objects = @ \cup {ob}]

\* context.scene.objects.unlink(ob): the object leaves the scene, and with it
\* its selection state there; the scene has no active object if it was the one
scene_objects_unlink(b, ob) ==
    [b EXCEPT !.scene_objects = @ \ {ob},
              !.selected = @ \ {ob},
              !.active = IF @ = ob THEN None ELSE @]

\* ob.select = True: selects the object in the scene it is linked to
select_True(b, ob) ==
    IF ob \in b.scene_objects THEN [b EXCEPT !.selected = @ \cup {ob}] ELSE b

\* context.scene.objects.active = ob: the scene's base of ob, none if unlinked
scene_objects_active_set(b, ob) ==
    [b EXCEPT !.active = IF ob \in b.scene_objects THEN ob ELSE None]

\* bpy.ops.object.add(type='MESH') then helper = context.active_object and
\* the three assignments that name it and give it fake users: a new object in
\* the registry, linked to the scene, selected and active
object_add(b) ==
    [b EXCEPT !.data_objects = @ \cup {HelperName},
              !.scene_objects = @ \cup {HelperName},
              !.selected = @ \cup {HelperName},
              !.active = HelperName,
              !.objects_added = @ + 1,
              !.helper = [matrix_world |-> Matrix,
                          use_fake_user |-> TRUE,
                          data_use_fake_user |-> TRUE]]

\* helper.location: the translation of its world matrix (the helper has no parent)
helper_location(b) == b.helper.matrix_world.translation

\* bpy.types.SpaceView3D.draw_handler_add(fn, args, 'WINDOW', 'POST_PIXEL'):
\* the handle it returns is the number of the registration
draw_handler_add(b, fn, args, self) ==
    [b EXCEPT !.handlers_added = @ + 1,
              !.draw_handlers = @ \cup {[id |-> b.handlers_added + 1, fn |-> fn,
                                          args |-> args, self |-> self]}]

\* bpy.types.SpaceView3D.draw_handler_remove(handle, 'WINDOW')
draw_handler_remove(b, handle) ==
    [b EXCEPT !.draw_handlers = {h \in @ : h.id # handle}]

(***************************************************************************)
(* class SnapStore                                                         *)
(***************************************************************************)
SnapStoreInit ==
    [callback |-> None,
     draw |-> None,
     helper |-> None,
     takeloc |-> Vector000,
     placeloc |-> Vector000,
     constraint_axis |-> <<TRUE, TRUE, FALSE>>,
     helper_matrix |-> Matrix,
     transform_orientation |-> "GLOBAL",
     mode |-> None]

(***************************************************************************)
(* class ArchipackSnapBase                                                 *)
(***************************************************************************)
\* __init__
ArchipackSnapBase ==
    [act |-> None,
     sel |-> {},
     use_snap |-> FALSE,
     snap_element |-> None,
     snap_target |-> None,
     pivot_point |-> None,
     transform_orientation |-> None,
     _draw_handler |-> 0]

\* a set_transform_orientation that leaves the view as it is
set_transform_orientation_skipped(m) == m

\* set_transform_orientation(self, context)
set_transform_orientation(m) ==
    [m EXCEPT !.bpy.space_data.transform_orientation = m.SnapStore.transform_orientation]

\* a create_helper that never looks the helper up
create_helper_always_adds(m) ==
    LET placed(b) == scene_objects_active_set(
                         select_True([b EXCEPT !.helper.matrix_world =
                                                   m.SnapStore.helper_matrix],
                                     HelperName),
                         HelperName)
    IN [m EXCEPT !.bpy = placed(object_add(m.bpy)), !.SnapStore.helper = HelperName]

\* create_helper(self, context)
create_helper(m) ==
    LET \* lines 204-214: the helper found (and linked if it is not) or added
        found_or_added(b) ==
            IF HelperName \in b.data_objects
            THEN IF HelperName \notin b.scene_objects
                 THEN scene_objects_link(b, HelperName)
                 ELSE b
            ELSE object_add(b)
        \* lines 217-219: matrix_world, select, active
        placed(b) == scene_objects_active_set(
                         select_True([b EXCEPT !.helper.matrix_world =
                                                   m.SnapStore.helper_matrix],
                                     HelperName),
                         HelperName)
    IN [m EXCEPT !.bpy = placed(found_or_added(m.bpy)), !.SnapStore.helper = HelperName]

\* a destroy_helper that unlinks the helper and keeps the reference to it
destroy_helper_keeps_reference(m) ==
    IF m.SnapStore.helper # None
    THEN [m EXCEPT !.bpy = scene_objects_unlink(m.bpy, m.SnapStore.helper)]
    ELSE m

\* destroy_helper(self, context)
destroy_helper(m) ==
    IF m.SnapStore.helper # None
    THEN [m EXCEPT !.bpy = scene_objects_unlink(m.bpy, m.SnapStore.helper),
                   !.SnapStore.helper = None]
    ELSE m

\* init(self, context, event); o is the operator, the self of the draw args
init(m, o) ==
    LET \* lines 162-169: sel and act are read before select_all, the settings
        \* after it, which does not touch them
        stored(m0) ==
            [m0 EXCEPT !.self.sel = m0.bpy.selected,
                       !.self.act = m0.bpy.active,
                       !.bpy = select_all_DESELECT(m0.bpy),
                       !.self.use_snap = m0.bpy.tool_settings.use_snap,
                       !.self.snap_element = m0.bpy.tool_settings.snap_element,
                       !.self.snap_target = m0.bpy.tool_settings.snap_target,
                       !.self.pivot_point = m0.bpy.space_data.pivot_point,
                       !.self.transform_orientation =
                           m0.bpy.space_data.transform_orientation]
        \* lines 172-173
        args == <<"sp", "context">>
        registered(m5) ==
            [m5 EXCEPT !.self._draw_handler = m5.bpy.handlers_added + 1,
                       !.bpy = draw_handler_add(m5.bpy, m5.SnapStore.draw, args, o)]
    IN registered(set_transform_orientation(create_helper(stored(m))))

\* the loop of exit: for o in self.sel: o.select = True
RECURSIVE select_all_of(_, _)
select_all_of(b, sel) ==
    IF sel = {} THEN b
    ELSE LET ob == CHOOSE x \in sel : TRUE
         IN select_all_of(select_True(b, ob), sel \ {ob})

\* exit(self, context)
exit(m) ==
    LET \* line 176
        removed(m0) == [m0 EXCEPT !.bpy = draw_handler_remove(m0.bpy, m.self._draw_handler)]
        \* lines 179-183
        settings(m2) ==
            [m2 EXCEPT !.bpy.tool_settings.use_snap = m.self.use_snap,
                       !.bpy.tool_settings.snap_element = m.self.snap_element,
                       !.bpy.tool_settings.snap_target = m.self.snap_target,
                       !.bpy.space_data.pivot_point = m.self.pivot_point,
                       !.bpy.space_data.transform_orientation =
                           m.self.transform_orientation]
        \* lines 184-185
        selection(m3) == [m3 EXCEPT !.bpy = select_all_of(m3.bpy, m.self.sel)]
        \* lines 186-187
        active(m4) ==
            IF m.self.act # None
            THEN [m4 EXCEPT !.bpy = scene_objects_active_set(m4.bpy, m.self.act)]
            ELSE m4
    IN active(selection(settings(destroy_helper(removed(m)))))

\* the property takeloc
takeloc(m) == m.SnapStore.takeloc

\* a placeloc that always answers from the store
placeloc_stored(m) == m.SnapStore.placeloc

\* the property placeloc
placeloc(m) ==
    IF m.SnapStore.helper # None
    THEN helper_location(m.bpy)
    ELSE m.SnapStore.placeloc

\* a delta with its operands exchanged
delta_reversed(m) == Sub(takeloc(m), placeloc(m))

\* the property delta
delta(m) == Sub(placeloc(m), takeloc(m))


(***************************************************************************)
(* def snap_point(takeloc, draw, callback, takemat, constraint_axis,       *)
(*                transform_orientation, mode)                             *)
(***************************************************************************)
\* a snap_point that stores its hooks only once its arguments are accepted
snap_point_hooks_deferred(S, draw, callback, constraint_axis) == S

\* lines 113-115: stored before the arguments are looked at
snap_point_hooks(S, draw, callback, constraint_axis) ==
    [S EXCEPT !.draw = draw, !.callback = callback, !.constraint_axis = constraint_axis]

\* a snap_point without the check of its arguments
snap_point_never_raises(takeloc_, takemat) == FALSE

\* lines 117, 122-123: raise ValueError
snap_point_raises(takeloc_, takemat) == takemat = NoMatrix /\ takeloc_ = NoVector

\* a snap_point that keeps the orientation it is passed beside takemat
snap_point_config_keeps_orientation(S, takeloc_, takemat, transform_orientation, mode) ==
    LET S1 == IF takemat # NoMatrix
              THEN [S EXCEPT !.helper_matrix = takemat]
              ELSE [S EXCEPT !.helper_matrix = MatrixTranslation(takeloc_)]
        loc == IF takemat # NoMatrix THEN takemat.translation ELSE takeloc_
    IN [S1 EXCEPT !.takeloc = loc,
                  !.placeloc = loc,
                  !.transform_orientation = transform_orientation,
                  !.mode = mode]

\* a snap_point that leaves placeloc at the origin
snap_point_config_placeloc_origin(S, takeloc_, takemat, transform_orientation, mode) ==
    LET S1 == IF takemat # NoMatrix
              THEN [S EXCEPT !.helper_matrix = takemat]
              ELSE [S EXCEPT !.helper_matrix = MatrixTranslation(takeloc_)]
        loc == IF takemat # NoMatrix THEN takemat.translation ELSE takeloc_
        orientation == IF takemat # NoMatrix THEN "LOCAL" ELSE transform_orientation
    IN [S1 EXCEPT !.takeloc = loc,
                  !.placeloc = Vector000,
                  !.transform_orientation = orientation,
                  !.mode = mode]

\* lines 117-133, for arguments that do not raise
snap_point_config(S, takeloc_, takemat, transform_orientation, mode) ==
    LET S1 == IF takemat # NoMatrix
              THEN [S EXCEPT !.helper_matrix = takemat]
              ELSE [S EXCEPT !.helper_matrix = MatrixTranslation(takeloc_)]
        loc == IF takemat # NoMatrix THEN takemat.translation ELSE takeloc_
        orientation == IF takemat # NoMatrix THEN "LOCAL" ELSE transform_orientation
    IN [S1 EXCEPT !.takeloc = loc,
                  !.placeloc = loc,
                  !.transform_orientation = orientation,
                  !.mode = mode]

(***************************************************************************)
(* class ARCHIPACK_OT_snap(ArchipackSnapBase, Operator)                    *)
(***************************************************************************)
\* bpy.ops.transform.translate('INVOKE_DEFAULT', constraint_axis=...,
\*     constraint_orientation=..., release_confirm=True), started by operator o
transform_translate(b, o, constraint_axis, constraint_orientation) ==
    [b EXCEPT !.translate = @ \cup {[op |-> o,
                                     constraint_axis |-> constraint_axis,
                                     constraint_orientation |-> constraint_orientation,
                                     release_confirm |-> TRUE]}]

\* an invoke without the test of the area
invoke_any_area(m, o, area_type) ==
    LET handled(m1) == [m1 EXCEPT !.bpy.modal_handlers = @ \cup {o}]
        translating(m2) ==
            [m2 EXCEPT !.bpy = transform_translate(m2.bpy, o,
                                                   m2.SnapStore.constraint_axis,
                                                   m2.SnapStore.transform_orientation)]
    IN [m |-> translating(handled(init(m, o))), returns |-> "RUNNING_MODAL",
        report |-> None, inits |-> 1]

\* invoke(self, context, event): the machine state after it and what it returns
invoke(m, o, area_type) ==
    LET \* lines 269-273: modal_handler_add, then the translate transform
        handled(m1) == [m1 EXCEPT !.bpy.modal_handlers = @ \cup {o}]
        translating(m2) ==
            [m2 EXCEPT !.bpy = transform_translate(m2.bpy, o,
                                                   m2.SnapStore.constraint_axis,
                                                   m2.SnapStore.transform_orientation)]
    IN IF area_type = "VIEW_3D"
       THEN [m |-> translating(handled(init(m, o))), returns |-> "RUNNING_MODAL",
             report |-> None, inits |-> 1]
       ELSE [m |-> m, returns |-> "FINISHED", report |-> "WARNING", inits |-> 0]

\* what a callback invocation is handed and what it can see when it runs
CallbackCall(m, handle, event_type, state) ==
    LET args == <<"context", "event", "state", "sp">>
    IN [fn |-> m.SnapStore.callback,
        args |-> args,
        event |-> event_type,
        state |-> state,
        result |-> Call(m.SnapStore.callback, args),
        takeloc |-> takeloc(m),
        placeloc |-> placeloc(m),
        delta |-> delta(m),
        stored_placeloc |-> m.SnapStore.placeloc,
        helper |-> m.SnapStore.helper,
        helper_linked |-> HelperName \in m.bpy.scene_objects,
        draw_registered |-> \E h \in m.bpy.draw_handlers : h.id = handle,
        selected |-> m.bpy.selected,
        active |-> m.bpy.active,
        transform_orientation |-> m.bpy.space_data.transform_orientation]

\* a modal whose second branch is not an else: after a cancel it goes on to
\* the confirm branch
modal_without_else(m, event_type) ==
    LET cancel == event_type \in CancelTypes
        confirmed(m1) ==
            [m |-> exit(m1), returns |-> "FINISHED", exits |-> 1,
             callbacks |->
                 (IF cancel
                  THEN <<CallbackCall(m, m.self._draw_handler, event_type, "CANCEL")>>
                  ELSE <<>>)
                 \o <<CallbackCall(m1, m.self._draw_handler, event_type, "SUCCESS")>>]
    IN confirmed([m EXCEPT !.SnapStore.placeloc = helper_location(m.bpy)])

\* a modal that reads the helper's position before it looks at the event
modal_reads_first(m, event_type) ==
    LET cancel == event_type \in CancelTypes
        called(m1, cb) ==
            IF cb.result # "return"
            THEN [m |-> m1, returns |-> "raise", callbacks |-> <<cb>>, exits |-> 0]
            ELSE [m |-> exit(m1), returns |-> "FINISHED", callbacks |-> <<cb>>,
                  exits |-> 1]
        state(m1) == called(m1, CallbackCall(m1, m.self._draw_handler, event_type,
                                             IF cancel THEN "CANCEL" ELSE "SUCCESS"))
    IN state([m EXCEPT !.SnapStore.placeloc = helper_location(m.bpy)])

\* a modal that reads the helper's position whether or not the reference is set
modal_tolerates_cleared(m, event_type) ==
    LET called(m1, cb) ==
            IF cb.result # "return"
            THEN [m |-> m1, returns |-> "raise", callbacks |-> <<cb>>, exits |-> 0]
            ELSE [m |-> exit(m1), returns |-> "FINISHED", callbacks |-> <<cb>>,
                  exits |-> 1]
        callback(m1, state) ==
            called(m1, CallbackCall(m1, m.self._draw_handler, event_type, state))
    IN IF event_type \in CancelTypes
       THEN callback(m, "CANCEL")
       ELSE callback([m EXCEPT !.SnapStore.placeloc = helper_location(m.bpy)],
                     "SUCCESS")

\* a modal that runs exit in a finally clause
modal_with_finally(m, event_type) ==
    LET called(m1, cb) ==
            [m |-> exit(m1),
             returns |-> IF cb.result # "return" THEN "raise" ELSE "FINISHED",
             callbacks |-> <<cb>>, exits |-> 1]
        callback(m1, state) ==
            called(m1, CallbackCall(m1, m.self._draw_handler, event_type, state))
    IN IF event_type \in CancelTypes
       THEN callback(m, "CANCEL")
       ELSE IF m.SnapStore.helper = None
       THEN [m |-> exit(m), returns |-> "raise", callbacks |-> <<>>, exits |-> 1]
       ELSE callback([m EXCEPT !.SnapStore.placeloc = helper_location(m.bpy)],
                     "SUCCESS")

\* modal(self, context, event): the machine state after it, what it returns
\* ("raise" when an exception leaves it) and the callback invocations it made
modal(m, event_type) ==
    LET \* lines 259 and 262, then 263-264 unless the callback raised
        called(m1, cb) ==
            IF cb.result # "return"
            THEN [m |-> m1, returns |-> "raise", callbacks |-> <<cb>>, exits |-> 0]
            ELSE [m |-> exit(m1), returns |-> "FINISHED", callbacks |-> <<cb>>,
                  exits |-> 1]
        callback(m1, state) ==
            called(m1, CallbackCall(m1, m.self._draw_handler, event_type, state))
    IN IF event_type \in CancelTypes
       THEN callback(m, "CANCEL")
       ELSE IF m.SnapStore.helper = None
       \* line 261, SnapStore.helper.location of None: AttributeError
       THEN [m |-> m, returns |-> "raise", callbacks |-> <<>>, exits |-> 0]
       ELSE callback([m EXCEPT !.SnapStore.placeloc = helper_location(m.bpy)],
                     "SUCCESS")

(***************************************************************************)
(* History.                                                                *)
(***************************************************************************)
NoCall ==
    [takeloc |-> NoVector, draw |-> None, callback |-> None, takemat |-> NoMatrix,
     constraint_axis |-> <<>>, transform_orientation |-> None,
     area_type |-> None, result |-> None, op |-> 0]

HistInit ==
    [args |-> NoCall,            \* the snap_point call that built the operator
     pre |-> NoContext,          \* the context immediately before init
     post |-> NoContext,         \* the context immediately after exit
     after_ended |-> FALSE,      \* every earlier session had ended when this one began
     inits |-> 0,                \* runs of init
     exits |-> 0,                \* runs of exit
     callbacks |-> <<>>,         \* the invocations of SnapStore.callback
     report |-> None,            \* what self.report was given
     matrix_world_at_init |-> NoMatrix, \* the helper's world matrix when init returned
     helper_at_event |-> NoVector, \* the helper's position when modal was handed its event
     stored_at_event |-> NoVector, \* SnapStore.placeloc at that time
     delta_after |-> NoVector]   \* self.delta once modal has returned

NoDraw == [fn |-> None, args |-> <<>>, result |-> None, self |-> 0, running |-> FALSE]

(***************************************************************************)
(* Initial states: a scene with the user's objects, nothing of the module  *)
(* in it, in one of a few contexts: with and without a selection, with and *)
(* without an active object, in each orientation.                          *)
(***************************************************************************)
Contexts ==
    {[selected |-> {}, active |-> None,
      tool_settings |-> [use_snap |-> FALSE, snap_element |-> "INCREMENT",
                         snap_target |-> "CLOSEST"],
      space_data |-> [pivot_point |-> "MEDIAN_POINT", transform_orientation |-> "GLOBAL"]],
     [selected |-> {"Cube", "Lamp"}, active |-> "Cube",
      tool_settings |-> [use_snap |-> TRUE, snap_element |-> "VERTEX",
                         snap_target |-> "ACTIVE"],
      space_data |-> [pivot_point |-> "CURSOR", transform_orientation |-> "VIEW"]]}

\* the callers of snap_point: one that leaves every optional argument at its
\* default, one that passes its own draw hook, axes and orientation, and one
\* whose callback raises
Callers ==
    {[draw |-> "dumb_draw", callback |-> "dumb_callback",
      constraint_axis |-> <<TRUE, TRUE, FALSE>>, transform_orientation |-> "GLOBAL"],
     [draw |-> "user_draw", callback |-> "dumb_callback",
      constraint_axis |-> <<TRUE, FALSE, FALSE>>, transform_orientation |-> "VIEW"],
     [draw |-> "user_draw", callback |-> "raising_callback",
      constraint_axis |-> <<TRUE, TRUE, FALSE>>, transform_orientation |-> "GLOBAL"]}

Init ==
    /\ \E c \in Contexts :
         bpy = [data_objects |-> UserObjects,
                scene_objects |-> UserObjects,
                selected |-> c.selected,
                active |-> c.active,
                tool_settings |-> c.tool_settings,
                space_data |-> c.space_data,
                helper |-> [matrix_world |-> NoMatrix,
                            use_fake_user |-> FALSE,
                            data_use_fake_user |-> FALSE],
                objects_added |-> 0,
                draw_handlers |-> {},
                handlers_added |-> 0,
                modal_handlers |-> {},
                translate |-> {}]
    /\ SnapStore = SnapStoreInit
    /\ ops = [o \in Ops |-> ArchipackSnapBase]
    /\ status = [o \in Ops |-> "NOT_STARTED"]
    /\ calls = 0
    /\ last_call = NoCall
    /\ hist = [o \in Ops |-> HistInit]
    /\ last_draw = NoDraw
    /\ sessions = [begun |-> 0, ended |-> 0]


(***************************************************************************)
(* Actions: what the caller, the user and the host's event loop do.        *)
(***************************************************************************)
\* the operator instance the host builds for bpy.ops.archipack.snap
NewOp == CHOOSE o \in Ops : status[o] # "RUNNING" /\ \A q \in Ops : q < o => status[q] = "RUNNING"

\* A call of snap_point, up to its return or its exception: the store is
\* filled, then bpy.ops.archipack.snap('INVOKE_DEFAULT') builds the operator
\* and runs its invoke in the area the call is made from.
call_snap_point(takeloc_, draw, callback, takemat, constraint_axis, transform_orientation, mode, area_type) ==
    /\ calls < MaxCalls
    /\ \E o \in Ops : status[o] # "RUNNING"
    /\ calls' = calls + 1
    /\ last_draw' = NoDraw
    /\ LET S0 == snap_point_hooks(SnapStore, draw, callback, constraint_axis)
           call == [takeloc |-> takeloc_, draw |-> draw, callback |-> callback,
                    takemat |-> takemat, constraint_axis |-> constraint_axis,
                    transform_orientation |-> transform_orientation,
                    area_type |-> area_type, result |-> None, op |-> 0]
       IN IF snap_point_raises(takeloc_, takemat)
          THEN /\ SnapStore' = S0
               /\ last_call' = [call EXCEPT !.result = "ValueError", !.area_type = None]
               /\ UNCHANGED <<bpy, ops, status, hist, sessions>>
          ELSE LET S1 == snap_point_config(S0, takeloc_, takemat,
                                           transform_orientation, mode)
                   o == NewOp
               IN \E r \in {invoke([bpy |-> bpy, SnapStore |-> S1,
                                    self |-> ArchipackSnapBase], o, area_type)} :
                  /\ bpy' = r.m.bpy
                  /\ SnapStore' = r.m.SnapStore
                  /\ ops' = [ops EXCEPT ![o] = r.m.self]
                  /\ status' = [status EXCEPT ![o] =
                        IF r.returns = "RUNNING_MODAL" THEN "RUNNING" ELSE "FINISHED"]
                  /\ last_call' = [call EXCEPT !.result = r.returns, !.op = o]
                  /\ hist' = [hist EXCEPT ![o] =
                        [HistInit EXCEPT !.args = last_call',
                                         !.pre = Context(bpy),
                                         !.after_ended = sessions.begun = sessions.ended,
                                         !.inits = r.inits,
                                         !.report = r.report,
                                         !.matrix_world_at_init =
                                             IF r.inits = 1
                                             THEN r.m.bpy.helper.matrix_world
                                             ELSE NoMatrix]]
                  /\ sessions' = [sessions EXCEPT !.begun = @ + r.inits]

\* The user drags the helper: the host's translate transform moves the
\* selected helper object while it runs.
user_drag(p) ==
    /\ bpy.translate # {}
    /\ HelperName \in bpy.selected
    /\ helper_location(bpy) # p
    /\ bpy' = [bpy EXCEPT !.helper.matrix_world.translation = p]
    /\ UNCHANGED <<SnapStore, ops, status, calls, last_call, hist, last_draw, sessions>>

\* The user toggles snapping during the transform (Shift+Tab in the host's
\* translate): the reason the session saves and restores use_snap.
user_toggle_snap ==
    /\ bpy.translate # {}
    /\ bpy' = [bpy EXCEPT !.tool_settings.use_snap = ~@]
    /\ UNCHANGED <<SnapStore, ops, status, calls, last_call, hist, last_draw, sessions>>

\* The host redraws the view: it calls a registered draw handler with the
\* arguments it was registered with.
handle_draw(h) ==
    /\ h \in bpy.draw_handlers
    /\ last_draw' = [fn |-> h.fn, args |-> h.args, result |-> Call(h.fn, h.args),
                     self |-> h.self, running |-> status[h.self] = "RUNNING"]
    /\ last_draw' # last_draw
    /\ UNCHANGED <<bpy, SnapStore, ops, status, calls, last_call, hist, sessions>>

\* The host hands the operator the event that ended the translate transform:
\* modal runs to its return or its exception, and in both cases the host drops
\* the operator (an exception ends it as cancelled).
handle_modal(o, event_type) ==
    /\ o \in bpy.modal_handlers
    /\ LET b0 == [bpy EXCEPT !.translate = {t \in @ : t.op # o}]
       IN \E r \in {modal([bpy |-> b0, SnapStore |-> SnapStore, self |-> ops[o]],
                          event_type)} :
          /\ bpy' = [r.m.bpy EXCEPT !.modal_handlers = @ \ {o}]
          /\ SnapStore' = r.m.SnapStore
          /\ ops' = [ops EXCEPT ![o] = r.m.self]
          /\ status' = [status EXCEPT ![o] =
                IF r.returns = "FINISHED" THEN "FINISHED" ELSE "ABORTED"]
          /\ hist' = [hist EXCEPT ![o].callbacks = @ \o r.callbacks,
                                  ![o].exits = @ + r.exits,
                                  ![o].post = IF r.exits > 0 THEN Context(r.m.bpy) ELSE @,
                                  ![o].helper_at_event = helper_location(bpy),
                                  ![o].stored_at_event = SnapStore.placeloc,
                                  ![o].delta_after = delta(r.m)]
          /\ sessions' = [sessions EXCEPT !.ended = @ + r.exits]
    /\ last_draw' = NoDraw
    /\ UNCHANGED <<calls, last_call>>

Next ==
    \/ \E takeloc_ \in Points \cup {NoVector}, takemat \in Matrices \cup {NoMatrix},
          c \in Callers, area_type \in AreaTypes :
            /\ \A q \in Ops : status[q] # "RUNNING"
            /\ call_snap_point(takeloc_, c.draw, c.callback, takemat, c.constraint_axis,
                               c.transform_orientation, "OBJECT", area_type)
    \/ \E p \in Points : user_drag(p)
    \/ user_toggle_snap
    \/ \E h \in bpy.draw_handlers : handle_draw(h)
    \/ \E o \in Ops, event_type \in EventTypes : handle_modal(o, event_type)

Spec == Init /\ [][Next]_vars

\* The same steps with no session waiting for the one before it: nothing in
\* snap_point or invoke looks whether a session is RUNNING, so a caller (a
\* hook, a timer, another add-on) can begin a session while one is RUNNING.
\* The calls are those that begin a session, with the defaults of snap_point
\* for every optional argument: snap_point(takeloc), in a 3D view.
NextOverlap ==
    \/ \E takeloc_ \in Points :
            call_snap_point(takeloc_, "dumb_draw", "dumb_callback", NoMatrix,
                            <<TRUE, TRUE, FALSE>>, "GLOBAL", "OBJECT", "VIEW_3D")
    \/ \E p \in Points : user_drag(p)
    \/ user_toggle_snap
    \/ \E h \in bpy.draw_handlers : handle_draw(h)
    \/ \E o \in Ops, event_type \in EventTypes : handle_modal(o, event_type)

SpecOverlap == Init /\ [][NextOverlap]_vars


(***************************************************************************)
(* Properties.                                                             *)
(***************************************************************************)
\* the session of operator o began (init ran) and ended (exit ran)
BeganAndEnded(o) == hist[o].inits = 1 /\ hist[o].exits = 1

\* C1: for every session that begins and ends, whatever the context before
\* it, the selection, the active object, the snap settings, the pivot and the
\* orientation after exit equal their values immediately before init.
C1_ContextRestored ==
    \A o \in Ops : BeganAndEnded(o) => hist[o].post = hist[o].pre

\* C2: for every session that reaches RUNNING the callback is invoked exactly
\* once, with SUCCESS or CANCEL, in the modal step that ends the operator:
\* not while it is RUNNING, and the operator is no modal handler afterwards,
\* so that no second modal step can invoke it again.
C2_CallbackExactlyOnce ==
    \A o \in Ops : hist[o].inits = 1 =>
        /\ status[o] = "RUNNING" => hist[o].callbacks = <<>>
        /\ status[o] # "RUNNING" =>
              /\ Len(hist[o].callbacks) = 1
              /\ hist[o].callbacks[1].state \in {"SUCCESS", "CANCEL"}
              /\ o \notin bpy.modal_handlers
        /\ status[o] = "FINISHED" => hist[o].callbacks[1].result = "return"

C2_Witness ==
    \E o \in Ops :
        /\ status[o] = "FINISHED" /\ hist[o].inits = 1
        /\ Len(hist[o].callbacks) = 1
        /\ hist[o].callbacks[1].state = "CANCEL"

\* C3: exit runs exactly once for each init on every exit path of a started
\* session (completion, cancel, a hook raising), and leaves the context as it
\* was before the session.
C3_ExitOncePerInit ==
    \A o \in Ops : status[o] # "RUNNING" =>
        /\ hist[o].exits = hist[o].inits
        /\ hist[o].inits = 1 => hist[o].post = hist[o].pre

\* C4: a call of snap_point with neither takeloc nor takemat fails with
\* ValueError before the operator is invoked: no operator is built, no helper
\* created or linked, no draw or modal handler registered, the context kept.
C4_InvalidArgument ==
    [][(/\ calls' = calls + 1
        /\ last_call'.takeloc = NoVector
        /\ last_call'.takemat = NoMatrix)
       => /\ last_call'.result = "ValueError"
          /\ last_call'.op = 0
          /\ UNCHANGED <<bpy, ops, status, hist, sessions>>]_vars

C4_Witness ==
    /\ last_call.result = "ValueError"
    /\ HelperName \in bpy.data_objects

\* C5: invoked in an area that is no 3D view, the operator reports a warning
\* and is FINISHED at once: the host is left as it was (no helper, no draw or
\* modal handler, no translate, selection, active object, settings, pivot and
\* orientation unchanged), init has not run, and the callback is not invoked
\* then or later.
C5_NoViewNoSideEffects ==
    [][/\ (/\ calls' = calls + 1
           /\ last_call'.result # "ValueError"
           /\ last_call'.area_type # "VIEW_3D")
          => /\ last_call'.result = "FINISHED"
             /\ hist'[last_call'.op].report = "WARNING"
             /\ hist'[last_call'.op].inits = 0
             /\ UNCHANGED <<bpy, sessions>>
       /\ \A o \in Ops : hist'[o].report = "WARNING" =>
             /\ status'[o] = "FINISHED"
             /\ hist'[o].callbacks = <<>>
             /\ o \notin bpy'.modal_handlers]_vars

C5_Witness ==
    /\ last_call.result = "FINISHED"
    /\ last_call.area_type = "IMAGE_EDITOR"
    /\ hist[last_call.op].report = "WARNING"

\* C6: after a call of snap_point with a takemat, whatever takeloc and
\* transform_orientation are passed beside it, the store holds the matrix's
\* translation as takeloc, the matrix as helper_matrix and LOCAL as
\* transform_orientation.
C6_TakematOverrides ==
    (last_call.result # None /\ last_call.takemat # NoMatrix) =>
        /\ SnapStore.takeloc = last_call.takemat.translation
        /\ SnapStore.helper_matrix = last_call.takemat
        /\ SnapStore.transform_orientation = "LOCAL"

C6_Witness ==
    /\ last_call.takemat # NoMatrix
    /\ last_call.takeloc # NoVector
    /\ last_call.takeloc # last_call.takemat.translation
    /\ last_call.transform_orientation = "VIEW"
    /\ SnapStore.takeloc = last_call.takemat.translation

\* C7: in a modal step whose event is ESC or RIGHTMOUSE the callback is
\* invoked once, with CANCEL, and SnapStore.placeloc is not updated: during
\* the callback and after the step it is what it was before the event,
\* wherever the helper has been dragged to.
C7_CancelKeepsPlaceloc ==
    [][\A o \in Ops :
          (/\ Len(hist'[o].callbacks) > Len(hist[o].callbacks)
           /\ hist'[o].callbacks[Len(hist'[o].callbacks)].event \in {"ESC", "RIGHTMOUSE"})
          => /\ Len(hist'[o].callbacks) = 1
             /\ hist'[o].callbacks[1].state = "CANCEL"
             /\ hist'[o].callbacks[1].stored_placeloc = SnapStore.placeloc
             /\ SnapStore'.placeloc = SnapStore.placeloc]_vars

C7_Witness ==
    \E o \in Ops :
        /\ Len(hist[o].callbacks) = 1
        /\ hist[o].callbacks[1].state = "CANCEL"
        /\ hist[o].helper_at_event # hist[o].stored_at_event
        /\ SnapStore.placeloc = hist[o].stored_at_event

\* C8: in a modal step that confirms, the helper's position is in
\* SnapStore.placeloc when the callback is invoked with SUCCESS, and once the
\* session has ended the session's delta is that position minus the takeloc
\* given to snap_point.
C8_DeltaOnSuccess ==
    \A o \in Ops :
        (Len(hist[o].callbacks) = 1 /\ hist[o].callbacks[1].state = "SUCCESS") =>
            /\ hist[o].callbacks[1].stored_placeloc = hist[o].helper_at_event
            /\ (status[o] = "FINISHED" /\ hist[o].args.takemat = NoMatrix) =>
                  hist[o].delta_after = Sub(hist[o].helper_at_event, hist[o].args.takeloc)

C8_Witness ==
    \E o \in Ops :
        /\ status[o] = "FINISHED"
        /\ Len(hist[o].callbacks) = 1
        /\ hist[o].callbacks[1].state = "SUCCESS"
        /\ hist[o].args.takemat = NoMatrix
        /\ hist[o].delta_after # Vector000

\* C9: over sessions run one after another, each ended before the next
\* begins, the helper is created by the first session and reused by the
\* later ones: it is added only when the registry holds no object of the
\* reserved name, so at most one is ever added; a registered helper is linked
\* again by the session that finds it unlinked; and each session restores
\* the context it began in.
C9_HelperReused ==
    /\ bpy.objects_added <= 1
    /\ bpy.objects_added = 1 <=> HelperName \in bpy.data_objects
    /\ bpy.objects_added = 1 <=> sessions.begun >= 1
    /\ \A o \in Ops : status[o] = "RUNNING" => HelperName \in bpy.scene_objects
    /\ \A o \in Ops : (hist[o].after_ended /\ BeganAndEnded(o)) =>
          hist[o].post = hist[o].pre

C9_Witness ==
    \E o \in Ops :
        /\ sessions.begun = 2 /\ sessions.ended = 2
        /\ BeganAndEnded(o)
        /\ bpy.objects_added = 1
        /\ HelperName \notin bpy.scene_objects
        /\ hist[o].post = hist[o].pre

\* C10: while a session is RUNNING the draw hook is invoked as
\* draw(context, session): the context first, the session second.
C10_DrawArguments ==
    last_draw.running => last_draw.args = <<"context", "sp">>


\* C11: the default hooks are no-ops that accept what they are handed: every
\* invocation of the default draw hook by the host, with the arguments init
\* registered it with, returns, and so does every invocation of the default
\* callback by modal; a session with default hooks therefore runs init, its
\* frames, modal and exit with no hook failure.
C11_DefaultHooksAccept ==
    /\ last_draw.fn = "dumb_draw" => last_draw.result = "return"
    /\ \A o \in Ops : \A i \in 1..Len(hist[o].callbacks) :
          hist[o].callbacks[i].fn = "dumb_callback" =>
              hist[o].callbacks[i].result = "return"
    /\ \A o \in Ops :
          (/\ hist[o].inits = 1
           /\ hist[o].args.draw = "dumb_draw"
           /\ hist[o].args.callback = "dumb_callback"
           /\ status[o] # "RUNNING") => (status[o] = "FINISHED" /\ hist[o].exits = 1)

\* C12: the modal step of a RUNNING session ends it in that step: the
\* callback is invoked once, with CANCEL exactly for ESC and RIGHTMOUSE and
\* with SUCCESS otherwise, before exit (the helper still linked and
\* referenced, the draw handler still registered, the helper still the
\* selection and the active object), then exit runs and the step returns
\* FINISHED; the operator is no modal handler afterwards.
C12_ModalEndsSession ==
    \A o \in Ops : (hist[o].inits = 1 /\ status[o] # "RUNNING") =>
        /\ Len(hist[o].callbacks) = 1
        /\ LET cb == hist[o].callbacks[1]
           IN /\ cb.state = "CANCEL" <=> cb.event \in {"ESC", "RIGHTMOUSE"}
              /\ cb.state = "SUCCESS" <=> cb.event \notin {"ESC", "RIGHTMOUSE"}
              /\ cb.helper = HelperName
              /\ cb.helper_linked
              /\ cb.draw_registered
              /\ cb.selected = {HelperName}
              /\ cb.active = HelperName
        /\ hist[o].exits = 1
        /\ status[o] = "FINISHED"
        /\ o \notin bpy.modal_handlers

\* C13: in every state where a session is RUNNING the helper is linked in
\* the scene, is the only selected object and the active object, its world
\* matrix when init returned was the configured helper_matrix, the view's
\* orientation is the configured transform_orientation, and the session's
\* translate was started with the configured constraint_axis and
\* transform_orientation.
C13_RunningSetup ==
    \A o \in Ops : status[o] = "RUNNING" =>
        /\ HelperName \in bpy.scene_objects
        /\ bpy.selected = {HelperName}
        /\ bpy.active = HelperName
        /\ hist[o].matrix_world_at_init = SnapStore.helper_matrix
        /\ bpy.space_data.transform_orientation = SnapStore.transform_orientation
        /\ \E t \in bpy.translate :
              /\ t.op = o
              /\ t.constraint_axis = SnapStore.constraint_axis
              /\ t.constraint_axis = hist[o].args.constraint_axis
              /\ t.constraint_orientation = SnapStore.transform_orientation

C13_Witness ==
    \E o \in Ops :
        /\ status[o] = "RUNNING"
        /\ sessions.begun = 2
        /\ hist[o].pre.selected = {"Cube", "Lamp"}
        /\ hist[o].args.takemat # NoMatrix
        /\ hist[o].args.transform_orientation = "VIEW"
        /\ bpy.space_data.transform_orientation = "LOCAL"
        /\ bpy.helper.matrix_world # SnapStore.helper_matrix

\* C14: the draw handler is paired with the session: with sessions run one
\* after another a draw handler of the module is registered exactly while a
\* session is RUNNING, it is the one init registered for that session, and
\* there is never more than one.
C14_DrawHandlerPaired ==
    /\ bpy.draw_handlers # {} <=> \E o \in Ops : status[o] = "RUNNING"
    /\ Cardinality(bpy.draw_handlers) <= 1
    /\ \A o \in Ops : status[o] = "RUNNING" =>
          \E h \in bpy.draw_handlers : h.id = ops[o]._draw_handler /\ h.self = o

\* C15: after the exit of any session the helper is unlinked and not
\* deleted: it is in the registry under the reserved name, with its fake
\* user, it is not in the scene, and SnapStore.helper is None; an exit that
\* finds SnapStore.helper already None unlinks nothing.
C15_HelperUnlinkedNotDeleted ==
    [][\A o \in Ops : hist'[o].exits > hist[o].exits =>
          /\ HelperName \in bpy'.data_objects
          /\ bpy'.helper.use_fake_user
          /\ HelperName \notin bpy'.scene_objects
          /\ SnapStore'.helper = None
          /\ bpy'.data_objects = bpy.data_objects
          /\ SnapStore.helper = None => bpy'.scene_objects = bpy.scene_objects]_vars

C15_Witness ==
    \E o \in Ops :
        /\ hist[o].exits = 1
        /\ Len(hist[o].callbacks) = 1
        /\ hist[o].callbacks[1].helper = None
        /\ sessions.ended = 2
        /\ HelperName \in bpy.data_objects
        /\ HelperName \notin bpy.scene_objects
        /\ bpy.scene_objects = UserObjects
        /\ SnapStore.helper = None

\* C16: nothing guards against a session begun while one is RUNNING, and
\* the two corrupt each other through the store.  In every interleaving, the
\* exit of one session while another is RUNNING unlinks the helper and clears
\* SnapStore.helper under the session still RUNNING; and the modal step of a
\* session that finds the reference cleared never confirms: on a confirming
\* event it fails at SnapStore.helper.location with no callback invoked, no
\* exit and the context as it was, and on a cancelling event the callback
\* sees the stored placeloc.  (The witness is the interleaving of the claim.)
C16_OverlapCorrupts ==
    [][\A o \in Ops :
          /\ (/\ status[o] = "RUNNING"
              /\ status'[o] = "RUNNING"
              /\ \E q \in Ops \ {o} : hist'[q].exits > hist[q].exits)
             => /\ SnapStore'.helper = None
                /\ HelperName \notin bpy'.scene_objects
                /\ HelperName \notin bpy'.selected
          /\ (/\ status[o] = "RUNNING"
              /\ status'[o] # "RUNNING"
              /\ SnapStore.helper = None)
             => \/ /\ status'[o] = "ABORTED"
                   /\ hist'[o].callbacks = <<>>
                   /\ hist'[o].exits = 0
                   /\ \E h \in bpy'.draw_handlers : h.self = o
                   /\ Context(bpy') = Context(bpy)
                \/ /\ status'[o] = "FINISHED"
                   /\ Len(hist'[o].callbacks) = 1
                   /\ hist'[o].callbacks[1].state = "CANCEL"
                   /\ hist'[o].callbacks[1].placeloc = SnapStore.placeloc]_vars

C16_Witness ==
    \E o \in Ops, q \in Ops :
        /\ o # q
        /\ hist[o].inits = 1 /\ hist[q].inits = 1
        /\ hist[o].after_ended /\ ~hist[q].after_ended
        /\ hist[o].args.takeloc # hist[q].args.takeloc
        /\ status[q] = "FINISHED" /\ hist[q].exits = 1
        /\ status[o] = "ABORTED" /\ hist[o].callbacks = <<>>
        /\ Context(bpy) # hist[o].pre

\* C17: an exception raised in the callback during the modal step leaves
\* modal untrapped and the cleanup undone: exit does not run, the draw
\* handler stays registered, the helper stays linked, selected, active and
\* referenced by SnapStore.helper, and the selection, the active object, the
\* tool settings, the pivot and the orientation are left as the session had
\* them, not restored.
C17_RaisingCallbackNoCleanup ==
    [][\A o \in Ops :
          (/\ Len(hist'[o].callbacks) > Len(hist[o].callbacks)
           /\ hist'[o].callbacks[Len(hist'[o].callbacks)].result = "raise")
          => /\ status'[o] = "ABORTED"
             /\ hist'[o].exits = hist[o].exits
             /\ sessions' = sessions
             /\ \E h \in bpy'.draw_handlers : h.id = ops'[o]._draw_handler /\ h.self = o
             /\ HelperName \in bpy'.scene_objects
             /\ SnapStore'.helper = HelperName
             /\ Context(bpy') = Context(bpy)
             /\ bpy'.selected = {HelperName}
             /\ bpy'.active = HelperName
             /\ bpy'.space_data.transform_orientation = SnapStore'.transform_orientation]_vars

C17_Witness ==
    \E o \in Ops :
        /\ status[o] = "ABORTED"
        /\ Len(hist[o].callbacks) = 1
        /\ hist[o].callbacks[1].result = "raise"
        /\ hist[o].exits = 0
        /\ hist[o].pre.selected = {"Cube", "Lamp"}
        /\ bpy.selected = {HelperName}
        /\ bpy.tool_settings.use_snap # hist[o].pre.use_snap
        /\ bpy.space_data.transform_orientation # hist[o].pre.transform_orientation
        /\ bpy.draw_handlers # {}

\* C18: the placeloc read through a session is the helper's live position
\* in every state where SnapStore.helper is set (all of the RUNNING phase,
\* and the callback invocation for SUCCESS and for CANCEL) and the stored
\* SnapStore.placeloc where it is None (before the first init, after exit);
\* delta is always that placeloc minus the stored takeloc, and neither the
\* store nor the operator has a field for it.
C18_PlacelocLive ==
    \A o \in Ops :
        LET m == [bpy |-> bpy, SnapStore |-> SnapStore, self |-> ops[o]]
        IN /\ SnapStore.helper # None =>
                 placeloc(m) = bpy.helper.matrix_world.translation
           /\ SnapStore.helper = None => placeloc(m) = SnapStore.placeloc
           /\ delta(m) = Sub(placeloc(m), SnapStore.takeloc)
           /\ status[o] = "RUNNING" => SnapStore.helper # None
           /\ sessions.begun = 0 => SnapStore.helper = None
           /\ (sessions.begun = sessions.ended /\ status[o] # "RUNNING") =>
                 SnapStore.helper = None
           /\ \A i \in 1..Len(hist[o].callbacks) :
                 LET cb == hist[o].callbacks[i]
                 IN /\ cb.helper # None
                    /\ cb.placeloc = hist[o].helper_at_event
                    /\ cb.delta = Sub(hist[o].helper_at_event, cb.takeloc)
           /\ "delta" \notin DOMAIN SnapStore
           /\ "delta" \notin DOMAIN ops[o]

C18_Witness ==
    \E o \in Ops :
        /\ Len(hist[o].callbacks) = 1
        /\ hist[o].callbacks[1].state = "CANCEL"
        /\ hist[o].callbacks[1].placeloc # hist[o].callbacks[1].stored_placeloc
        /\ status[o] = "FINISHED"
        /\ SnapStore.helper = None
        /\ placeloc([bpy |-> bpy, SnapStore |-> SnapStore, self |-> ops[o]])
              # bpy.helper.matrix_world.translation

\* C19: a call of snap_point that fails with ValueError leaves takeloc,
\* placeloc, helper_matrix, transform_orientation and helper of the store as
\* they were, and has already overwritten draw, callback and constraint_axis
\* with the arguments of the failed call: the store is not left unchanged.
C19_FailedCallOverwritesHooks ==
    [][(calls' = calls + 1 /\ last_call'.result = "ValueError")
       => /\ SnapStore'.takeloc = SnapStore.takeloc
          /\ SnapStore'.placeloc = SnapStore.placeloc
          /\ SnapStore'.helper_matrix = SnapStore.helper_matrix
          /\ SnapStore'.transform_orientation = SnapStore.transform_orientation
          /\ SnapStore'.helper = SnapStore.helper
          /\ SnapStore'.mode = SnapStore.mode
          /\ SnapStore'.draw = last_call'.draw
          /\ SnapStore'.callback = last_call'.callback
          /\ SnapStore'.constraint_axis = last_call'.constraint_axis
          /\ SnapStore' # SnapStore
             <=> <<SnapStore.draw, SnapStore.callback, SnapStore.constraint_axis>>
                 # <<last_call'.draw, last_call'.callback, last_call'.constraint_axis>>]_vars

C19_Witness ==
    \E o \in Ops :
        /\ last_call.result = "ValueError"
        /\ calls = 2
        /\ status[o] = "FINISHED"
        /\ Len(hist[o].callbacks) = 1
        /\ hist[o].callbacks[1].fn = "dumb_callback"
        /\ hist[o].args.constraint_axis = <<TRUE, TRUE, FALSE>>
        /\ SnapStore.callback = "raising_callback"
        /\ SnapStore.draw = "user_draw"
        /\ SnapStore.takeloc = hist[o].args.takeloc
        /\ SnapStore.takeloc # Vector000
        /\ SnapStore.transform_orientation = hist[o].args.transform_orientation

\* C20: every session starts with no displacement, for a takeloc and for a
\* takemat: a call of snap_point that is accepted stores placeloc = takeloc
\* (the takeloc passed, or the translation of the takemat); when init has
\* returned the helper is at takeloc and the session's delta is the zero
\* vector; and after a modal step that cancels the stored placeloc is still
\* takeloc.
C20_ZeroDisplacementAtStart ==
    [][/\ (calls' = calls + 1 /\ last_call'.result # "ValueError")
          => /\ SnapStore'.placeloc = SnapStore'.takeloc
             /\ SnapStore'.takeloc =
                   IF last_call'.takemat # NoMatrix
                   THEN last_call'.takemat.translation
                   ELSE last_call'.takeloc
       /\ (calls' = calls + 1 /\ last_call'.result = "RUNNING_MODAL")
          => /\ bpy'.helper.matrix_world.translation = SnapStore'.takeloc
             /\ placeloc([bpy |-> bpy', SnapStore |-> SnapStore',
                          self |-> ops'[last_call'.op]]) = SnapStore'.takeloc
             /\ delta([bpy |-> bpy', SnapStore |-> SnapStore',
                       self |-> ops'[last_call'.op]]) = Vector000
       /\ \A o \in Ops :
             (/\ Len(hist'[o].callbacks) > Len(hist[o].callbacks)
              /\ hist'[o].callbacks[Len(hist'[o].callbacks)].state = "CANCEL")
             => SnapStore'.placeloc = SnapStore'.takeloc]_vars

C20_Witness ==
    \E o \in Ops :
        /\ status[o] = "FINISHED"
        /\ Len(hist[o].callbacks) = 1
        /\ hist[o].callbacks[1].state = "CANCEL"
        /\ hist[o].args.takemat # NoMatrix
        /\ hist[o].args.takeloc # NoVector
        /\ hist[o].args.takeloc # hist[o].args.takemat.translation
        /\ hist[o].helper_at_event # hist[o].args.takemat.translation
        /\ SnapStore.takeloc # Vector000
        /\ SnapStore.placeloc = SnapStore.takeloc

=============================================================================
